---- MODULE Spec2Model ----
(***************************************************************************)
(* Model of the voice canvas: the scene store (canvasReducer), the command *)
(* mapper (mapToolToAction), the broadcast synchronizer (useCanvas) and    *)
(* the draft/commit verification loop (handleSendText).                    *)
(***************************************************************************)
EXTENDS Integers, Sequences, FiniteSets, TLC

\* ------------------------------------------------------------------ bounds
NumObservers == 2      \* tabs of the same origin sharing 'canvas_collab'
MaxPublish == 1        \* commands published besides the commits of the loop
MaxIds == 1            \* crypto.randomUUID() values drawn in one behaviour
MaxCalls == 1          \* tool calls carried by one model response
MaxLive == 1           \* live sessions started, and tool-call messages they receive
MaxScene == 3          \* elements of a scene a function is applied to on its own
MaxLiveCalls == 2      \* tool calls carried by one live message

\* ------------------------------------------------------- program constants
MAX_ITERATIONS == 5
THRESHOLD == 20
MIN_DIST_INIT == 10000
DEFAULT_FONT_SIZE == 5

Observers == 1..NumObservers

\* the tabs whose user types instructions; the users of the other tabs use
\* the toolbar
Operators == {1}

\* an optional value: None is null/undefined, Some(v) a present value
None == <<>>
Some(v) == <<v>>

\* an optional numeric field that is absent (coordinates and sizes are >= 0)
Undef == -1
\* an optional string field that is absent
UndefText == "undefined"

\* ------------------------------------------------------------- Scene Store
\* a merge that ignores the updates
MergeNothing(el, updates) == el

\* {...el, ...updates}: every key of updates overrides the key of el
Merge(el, updates) ==
  [f \in DOMAIN el |-> IF f \in DOMAIN updates THEN updates[f] ELSE el[f]]

\* a reducer whose SET_STATE adds the list to the scene
canvasReducerMerges(els, action) ==
  CASE action.type = "ADD_ELEMENT" -> Append(els, action.payload)
    [] action.type = "UPDATE_ELEMENT" ->
         [i \in 1..Len(els) |->
            IF els[i].id = action.payload.id
              THEN Merge(els[i], action.payload.updates)
              ELSE els[i]]
    [] action.type = "REMOVE_ELEMENT" ->
         SelectSeq(els, LAMBDA el : el.id # action.payload)
    [] action.type = "SET_STATE" -> els \o action.payload
    [] action.type = "CLEAR" -> <<>>
    [] OTHER -> els

\* a reducer that resets the scene on a command it does not know
canvasReducerStrict(els, action) ==
  CASE action.type = "ADD_ELEMENT" -> Append(els, action.payload)
    [] action.type = "UPDATE_ELEMENT" ->
         [i \in 1..Len(els) |->
            IF els[i].id = action.payload.id
              THEN Merge(els[i], action.payload.updates)
              ELSE els[i]]
    [] action.type = "REMOVE_ELEMENT" ->
         SelectSeq(els, LAMBDA el : el.id # action.payload)
    [] action.type = "SET_STATE" -> action.payload
    [] action.type = "CLEAR" -> <<>>
    [] OTHER -> <<>>

canvasReducer(els, action) ==
  CASE action.type = "ADD_ELEMENT" -> Append(els, action.payload)
    [] action.type = "UPDATE_ELEMENT" ->
         [i \in 1..Len(els) |->
            IF els[i].id = action.payload.id
              THEN Merge(els[i], action.payload.updates)
              ELSE els[i]]
    [] action.type = "REMOVE_ELEMENT" ->
         SelectSeq(els, LAMBDA el : el.id # action.payload)
    [] action.type = "SET_STATE" -> action.payload
    [] action.type = "CLEAR" -> <<>>
    [] OTHER -> els

\* ---------------------------------------------------------- Command Mapper
\* squared Euclidean distance; Math.sqrt is strictly increasing on these
\* integers, so dist < d is decided on the squares
Dist2(el, args) ==
  (el.x - args.x) * (el.x - args.x) + (el.y - args.y) * (el.y - args.y)

\* the for loop of remove_element with a candidate at the same distance as
\* the best seen so far taking its place
RECURSIVE closestFromLast(_, _, _, _, _)
closestFromLast(els, args, i, closestId, minDist2) ==
  IF i > Len(els) THEN closestId
  ELSE IF Dist2(els[i], args) <= minDist2
          /\ Dist2(els[i], args) < THRESHOLD * THRESHOLD
         THEN closestFromLast(els, args, i + 1, Some(els[i].id),
                              Dist2(els[i], args))
         ELSE closestFromLast(els, args, i + 1, closestId, minDist2)

\* the for loop of remove_element from position i on: closestId (an optional
\* id) and the square of minDist are the loop's two locals
RECURSIVE closestFrom(_, _, _, _, _)
closestFrom(els, args, i, closestId, minDist2) ==
  IF i > Len(els) THEN closestId
  ELSE IF Dist2(els[i], args) < minDist2
          /\ Dist2(els[i], args) < THRESHOLD * THRESHOLD
         THEN closestFrom(els, args, i + 1, Some(els[i].id), Dist2(els[i], args))
         ELSE closestFrom(els, args, i + 1, closestId, minDist2)

\* the result is an optional action; uuid is the value crypto.randomUUID()
\* returns when the branch asks for one
mapToolToAction(name, args, currentElements, uuid) ==
  CASE name = "draw_shape" ->
         Some([type |-> "ADD_ELEMENT",
               payload |->
                 [type |-> args.type, id |-> uuid, x |-> args.x, y |-> args.y,
                  width |-> IF args.type = "rect" \/ args.type = "triangle"
                              THEN args.size ELSE Undef,
                  height |-> IF args.type = "rect" THEN args.size ELSE Undef,
                  radius |-> IF args.type = "circle"
                               THEN args.size \div 2 ELSE Undef,
                  fill |-> args.color,
                  text |-> UndefText, fontSize |-> Undef]])
    [] name = "add_text" ->
         Some([type |-> "ADD_ELEMENT",
               payload |->
                 [type |-> "text", id |-> uuid, x |-> args.x, y |-> args.y,
                  width |-> Undef, height |-> Undef, radius |-> Undef,
                  fill |-> IF args.color = UndefText \/ args.color = ""
                             THEN "black" ELSE args.color,
                  text |-> args.text,
                  fontSize |-> IF args.fontSize = Undef \/ args.fontSize = 0
                                 THEN DEFAULT_FONT_SIZE ELSE args.fontSize]])
    [] name = "remove_element" ->
         LET closestId == closestFrom(currentElements, args, 1, None,
                                      MIN_DIST_INIT * MIN_DIST_INIT)
         IN  IF closestId # None
               THEN Some([type |-> "REMOVE_ELEMENT", payload |-> closestId[1]])
               ELSE None
    [] name = "clear_board" -> Some([type |-> "CLEAR", payload |-> None])
    [] OTHER -> None

\* does this tool name consume a fresh uuid
UsesUuid(name) == name \in {"draw_shape", "add_text"}

\* ------------------------------------------------------------------- state
VARIABLES
  elements,         \* [observer -> scene]: state.elements of each tab's useCanvas
  inbox,            \* inbox[s][l]: messages posted by tab s, in flight to the
                    \*   listening endpoint of tab l, oldest first
  published,        \* [observer -> number of broadcastAction calls made]
  posted,           \* number of postMessage calls made on 'canvas_collab'
  selfApplied,      \* [observer -> dispatches of commands it issued itself]
  processingPhase,  \* [observer -> 'idle' | 'generating' | 'verifying' | 'fixing']
  draftElements,    \* [observer -> optional scene]: the hidden draft canvas
  messages,         \* [observer -> transcript]
  status,           \* [observer -> ConnectionStatus]
  serviceRef,       \* [observer -> 0 (null) or the service it holds]
  svc,              \* [service -> GeminiLiveService object and its connect call]
  run,              \* [run -> locals of one handleSendText invocation]
  unacked,          \* tool calls received from the model, not yet acknowledged
  nextId,           \* the next value of crypto.randomUUID() for an element
  liveCount,        \* live server messages with tool calls received so far
  probe             \* one call of canvasReducer or mapToolToAction on drawn
                    \*   inputs, with its result once it has returned

syncVars == <<elements, inbox, published, posted, selfApplied>>
appVars == <<processingPhase, draftElements, messages, run, unacked>>
liveVars == <<status, serviceRef, svc, liveCount>>
vars == <<elements, inbox, published, posted, selfApplied, processingPhase,
          draftElements, messages, status, serviceRef, svc, run, unacked,
          nextId, liveCount, probe>>

\* ---------------------------------------------------- Broadcast Synchronizer
\* the endpoint a tab listens on, opened once by the effect
ListenEndpoint(o) == <<"listen", o, 0>>
\* the endpoint broadcastAction creates for its n-th call, closed after posting
PostEndpoint(o, n) == <<"post", o, n>>

\* BroadcastChannel.postMessage: every open endpoint of the name receives the
\* message except the endpoint object that posted it
Destinations(source) == {l \in Observers : ListenEndpoint(l) # source}

RECURSIVE reduceAll(_, _, _)
reduceAll(els, actions, i) ==
  IF i > Len(actions) THEN els
  ELSE reduceAll(canvasReducer(els, actions[i]), actions, i + 1)

\* broadcastAction called once for each action of the sequence, in order:
\* dispatch locally, then post on a fresh endpoint
broadcastAll(o, actions) ==
  /\ elements' = [elements EXCEPT ![o] = reduceAll(@, actions, 1)]
  /\ inbox' = [inbox EXCEPT ![o] =
        [l \in Observers |->
           IF l \in Destinations(PostEndpoint(o, published[o] + 1))
             THEN @[l] \o actions ELSE @[l]]]
  /\ published' = [published EXCEPT ![o] = @ + Len(actions)]
  /\ posted' = posted + Len(actions)
  /\ selfApplied' = [selfApplied EXCEPT ![o] = @ + Len(actions)]

broadcastAction(o, action) == broadcastAll(o, <<action>>)

\* an onmessage that hands the received command to broadcastAction, for the
\* first messages of a behaviour
onmessageRepublish(s, l) ==
  /\ inbox[s][l] # <<>>
  /\ LET data == Head(inbox[s][l])
         action == [type |-> data.type, payload |-> data.payload]
         taken == [inbox EXCEPT ![s][l] = Tail(@)]
         again == posted <= MaxPublish
     IN  /\ elements' = [elements EXCEPT ![l] = canvasReducer(@, action)]
         /\ inbox' = IF again
                        THEN [taken EXCEPT ![l] =
                                [d \in Observers |-> Append(@[d], action)]]
                        ELSE taken
         /\ published' = [published EXCEPT ![l] = IF again THEN @ + 1 ELSE @]
         /\ posted' = IF again THEN posted + 1 ELSE posted
  /\ selfApplied' = [selfApplied EXCEPT ![l] = IF s = l THEN @ + 1 ELSE @]

\* the body of channel.onmessage: type and payload are taken out of
\* event.data and dispatched, whatever else the data holds
onmessageDispatch(els, data) ==
  canvasReducer(els, [type |-> data.type, payload |-> data.payload])

\* channel.onmessage of the listening endpoint of tab l, for the oldest
\* message in flight from tab s
onmessage(s, l) ==
  /\ inbox[s][l] # <<>>
  /\ elements' = [elements EXCEPT ![l] = onmessageDispatch(@, Head(inbox[s][l]))]
  /\ inbox' = [inbox EXCEPT ![s][l] = Tail(@)]
  /\ selfApplied' = [selfApplied EXCEPT ![l] = IF s = l THEN @ + 1 ELSE @]
  /\ UNCHANGED <<published, posted>>

\* ------------------------------------------------------------ initial state
\* the handleSendText invocations a behaviour follows: the one the form admits
\* and one more, which only a form that admitted a second instruction would use
RunIds == {1, 2}
ServiceIds == 1..MaxLive

NoRequest == [acks |-> <<>>, prompt |-> "none", image |-> FALSE]

\* response holds the functionCalls of the response being processed
NoRun == [owner |-> 0, pc |-> "unused", currentDraft |-> <<>>, iterations |-> 0,
          toolResponses |-> <<>>, base |-> <<>>, request |-> NoRequest,
          outcome |-> "none", response |-> <<>>]

\* a GeminiLiveService: stream is the microphone stream held and live,
\* contexts the two audio contexts open, frameInterval the snapshot timer
\* running; disconnected records that disconnect() was called on it
NoService == [owner |-> 0, pc |-> "unused", session |-> "null",
              stream |-> FALSE, contexts |-> FALSE, frameInterval |-> FALSE,
              disconnected |-> FALSE, toolCall |-> <<>>]

\* no function call is followed on its own
\* out is the result of the call, again the result of a second call on the
\* same arguments, twice the result of the call on the result of the first
NoProbe == [again |-> None, kind |-> "none", scene |-> <<>>, input |-> <<>>,
            out |-> None, twice |-> None]

\* useReducer(canvasReducer, initialState) and the useState initial values
Init ==
  /\ elements = [o \in Observers |-> <<>>]
  /\ inbox = [s \in Observers |-> [l \in Observers |-> <<>>]]
  /\ published = [o \in Observers |-> 0]
  /\ posted = 0
  /\ selfApplied = [o \in Observers |-> 0]
  /\ processingPhase = [o \in Observers |-> "idle"]
  /\ draftElements = [o \in Observers |-> None]
  /\ messages = [o \in Observers |-> <<>>]
  /\ status = [o \in Observers |-> "disconnected"]
  /\ serviceRef = [o \in Observers |-> 0]
  /\ svc = [v \in ServiceIds |-> NoService]
  /\ run = [r \in RunIds |-> NoRun]
  /\ unacked = {}
  /\ nextId = 1
  /\ liveCount = 0
  /\ probe = NoProbe

\* ------------------------------------------- the commands useCanvas returns
\* a circle as draw_shape builds it, with a caller-supplied id
Circle(id, x, y) ==
  [type |-> "circle", id |-> id, x |-> x, y |-> y, width |-> Undef,
   height |-> Undef, radius |-> 10, fill |-> "red", text |-> UndefText,
   fontSize |-> Undef]

\* the ids, scenes and patches the synchronizer is exercised with
SyncIds == {1, 2}
SyncScenes == <<(<<>>), <<Circle(1, 50, 50)>>, <<Circle(1, 50, 50), Circle(2, 10, 10)>>>>
SyncPatches == <<[fill |-> "blue"], [x |-> 10, y |-> 12]>>

CanPublish == posted < MaxPublish

addElement(o, element) ==
  /\ CanPublish
  /\ broadcastAction(o, [type |-> "ADD_ELEMENT", payload |-> element])
  /\ UNCHANGED <<probe, appVars, liveVars, nextId>>

updateElement(o, id, updates) ==
  /\ CanPublish
  /\ broadcastAction(o, [type |-> "UPDATE_ELEMENT",
                         payload |-> [updates |-> updates, id |-> id]])
  /\ UNCHANGED <<probe, appVars, liveVars, nextId>>

removeElement(o, id) ==
  /\ CanPublish
  /\ broadcastAction(o, [type |-> "REMOVE_ELEMENT", payload |-> id])
  /\ UNCHANGED <<probe, appVars, liveVars, nextId>>

clearCanvas(o) ==
  /\ CanPublish
  /\ broadcastAction(o, [type |-> "CLEAR", payload |-> None])
  /\ UNCHANGED <<probe, appVars, liveVars, nextId>>

setElements(o, els) ==
  /\ CanPublish
  /\ broadcastAction(o, [type |-> "SET_STATE", payload |-> els])
  /\ UNCHANGED <<probe, appVars, liveVars, nextId>>

\* delivery of one message in flight
Deliver(s, l) ==
  /\ onmessage(s, l)
  /\ UNCHANGED <<probe, appVars, liveVars, nextId>>

\* every posted message has been delivered
Quiescent == \A s, l \in Observers : inbox[s][l] = <<>>

\* the synchronizer alone: tabs calling the five commands of the hook
SyncNext ==
  \/ \E o \in Observers, id \in SyncIds : addElement(o, Circle(id, 50, 50))
  \/ \E o \in Observers, id \in SyncIds, p \in 1..Len(SyncPatches) :
       updateElement(o, id, SyncPatches[p])
  \/ \E o \in Observers, id \in SyncIds : removeElement(o, id)
  \/ \E o \in Observers : clearCanvas(o)
  \/ \E o \in Observers, k \in 1..Len(SyncScenes) : setElements(o, SyncScenes[k])
  \/ \E s, l \in Observers : Deliver(s, l)

\* the tabs start from equal scenes
SyncInit ==
  /\ \E k \in 1..Len(SyncScenes) : elements = [o \in Observers |-> SyncScenes[k]]
  /\ inbox = [s \in Observers |-> [l \in Observers |-> <<>>]]
  /\ published = [o \in Observers |-> 0]
  /\ posted = 0
  /\ selfApplied = [o \in Observers |-> 0]
  /\ processingPhase = [o \in Observers |-> "idle"]
  /\ draftElements = [o \in Observers |-> None]
  /\ messages = [o \in Observers |-> <<>>]
  /\ status = [o \in Observers |-> "disconnected"]
  /\ serviceRef = [o \in Observers |-> 0]
  /\ svc = [v \in ServiceIds |-> NoService]
  /\ run = [r \in RunIds |-> NoRun]
  /\ unacked = {}
  /\ nextId = 1
  /\ liveCount = 0
  /\ probe = NoProbe

SyncSpec == SyncInit /\ [][SyncNext]_vars

\* ------------------------------------------------ model service responses
NoArgs == [type |-> UndefText, x |-> Undef, y |-> Undef, size |-> Undef,
           color |-> UndefText, text |-> UndefText, fontSize |-> Undef]

\* the tool calls the model service is taken to answer with
ToolInputs ==
  { [args |-> [NoArgs EXCEPT !.type = "circle", !.x = 50, !.y = 50,
                             !.size = 20, !.color = "red"],
     name |-> "draw_shape"],
    [args |-> [NoArgs EXCEPT !.x = 50, !.y = 50], name |-> "remove_element"],
    [args |-> [NoArgs EXCEPT !.x = 90, !.y = 90], name |-> "remove_element"],
    [args |-> NoArgs, name |-> "clear_board"],
    [args |-> NoArgs, name |-> "zoom_in"] }

\* functionCalls of one response: up to MaxCalls tool calls
ToolSeqs == UNION {[1..k -> ToolInputs] : k \in 0..MaxCalls}

\* the calls about the point (50, 50)
SamePointInputs == {c \in ToolInputs : c.args.x = 50 /\ c.args.y = 50}

\* msg.toolCall.functionCalls of one live message: one call, or up to
\* MaxLiveCalls calls about the same point
LiveToolSeqs ==
  [1..1 -> ToolInputs]
    \cup UNION {[1..k -> SamePointInputs] : k \in 2..MaxLiveCalls}

\* the calls as received, each with the call id the service gave it
WithIds(tools, r, k) ==
  [i \in 1..Len(tools) |->
     [id |-> <<r, k, i>>, args |-> tools[i].args, name |-> tools[i].name]]

NumUuids(tools) == Cardinality({i \in 1..Len(tools) : UsesUuid(tools[i].name)})

\* the responses that stay within the uuids this behaviour may draw
WithinIds(tools) == nextId + NumUuids(tools) - 1 <= MaxIds

CallIds(calls) == {calls[i].id : i \in 1..Len(calls)}

\* -------------------------------------------- Draft/Commit Verification Loop
\* a for loop that empties the draft when a call maps to no command
RECURSIVE applyToolsResets(_, _, _, _)
applyToolsResets(calls, i, currentDraft, uuid) ==
  IF i > Len(calls) THEN [uuid |-> uuid, draft |-> currentDraft]
  ELSE LET action == mapToolToAction(calls[i].name, calls[i].args,
                                     currentDraft, uuid)
           newDraft == IF action # None
                         THEN canvasReducer(currentDraft, action[1])
                         ELSE <<>>
       IN  applyToolsResets(calls, i + 1, newDraft,
                            IF UsesUuid(calls[i].name) THEN uuid + 1 ELSE uuid)

\* the for loop over response.functionCalls from call i on: each call is
\* mapped against the draft as the earlier calls left it
RECURSIVE applyTools(_, _, _, _)
applyTools(calls, i, currentDraft, uuid) ==
  IF i > Len(calls) THEN [uuid |-> uuid, draft |-> currentDraft]
  ELSE LET action == mapToolToAction(calls[i].name, calls[i].args,
                                     currentDraft, uuid)
           newDraft == IF action # None
                         THEN canvasReducer(currentDraft, action[1])
                         ELSE currentDraft
       IN  applyTools(calls, i + 1, newDraft,
                      IF UsesUuid(calls[i].name) THEN uuid + 1 ELSE uuid)

\* toolResponses: one functionResponse pushed for every call
functionResponses(calls) ==
  [i \in 1..Len(calls) |->
     [id |-> calls[i].id, name |-> calls[i].name, result |-> "success"]]

\* the two phases the other way round
phaseOfSwapped(iterations) ==
  IF iterations = 1 THEN "fixing" ELSE "verifying"

\* the phase set once the tool calls of an iteration are applied
phaseOf(iterations) ==
  IF iterations = 1 THEN "verifying" ELSE "fixing"

\* the while condition with the cap tested one iteration late
LoopContinuesLate(calls, iterations) ==
  Len(calls) > 0 /\ iterations <= MAX_ITERATIONS

\* a form that is never disabled
SubmitAlways(o) == TRUE

\* the while condition of the agentic loop
LoopContinues(calls, iterations) ==
  Len(calls) > 0 /\ iterations < MAX_ITERATIONS

\* the form accepts a submit: input and button are disabled outside idle
SubmitEnabled(o) == processingPhase[o] = "idle"

\* the run handleSendText starts next
NextRun(r) == run[r].pc = "unused" /\ \A q \in 1..(r - 1) : run[q].pc # "unused"

InFlight(r) == run[r].pc \notin {"unused", "done"}

\* the user types one instruction and none after its run is over
MoreInstructions == \A q \in RunIds : run[q].pc # "done"

UserMessage == [text |-> "instruction", role |-> "user"]
ModelMessage == [text |-> "reply", role |-> "model"]
ErrorMessage ==
  [text |-> "Sorry, I encountered an error processing your request.",
   role |-> "model"]

\* a finally block that leaves the draft in place
finallyKeepsDraft(o) ==
  /\ processingPhase' = [processingPhase EXCEPT ![o] = "idle"]
  /\ draftElements' = draftElements

\* the finally block
finally(o) ==
  /\ processingPhase' = [processingPhase EXCEPT ![o] = "idle"]
  /\ draftElements' = [draftElements EXCEPT ![o] = None]

\* handleSendText up to its first await, text mode: enter Generating, start
\* the draft from the rendered scene and send the instruction
Submit(o, r) ==
  /\ SubmitEnabled(o)
  /\ NextRun(r)
  /\ MoreInstructions
  /\ ~(status[o] = "connected" /\ serviceRef[o] # 0)
  /\ messages' = [messages EXCEPT ![o] = Append(@, UserMessage)]
  /\ processingPhase' = [processingPhase EXCEPT ![o] = "generating"]
  /\ draftElements' = [draftElements EXCEPT ![o] = Some(elements[o])]
  /\ run' = [run EXCEPT ![r] =
       [NoRun EXCEPT !.owner = o, !.pc = "send", !.currentDraft = elements[o],
                     !.base = elements[o],
                     !.request = [acks |-> <<>>, prompt |-> "instruction",
                                  image |-> FALSE]]]
  /\ UNCHANGED <<probe, syncVars, liveVars, unacked, nextId>>

\* handleSendText with a live session: the text goes to the session
SubmitLive(o, r) ==
  /\ SubmitEnabled(o)
  /\ NextRun(r)
  /\ MoreInstructions
  /\ status[o] = "connected" /\ serviceRef[o] # 0
  /\ messages' = [messages EXCEPT ![o] = Append(@, UserMessage)]
  /\ run' = [run EXCEPT ![r] = [NoRun EXCEPT !.owner = o, !.pc = "done"]]
  /\ UNCHANGED <<probe, syncVars, liveVars, processingPhase, draftElements, unacked,
                 nextId>>

\* chat.sendMessage resolved with tool calls and the loop body runs up to
\* the settling delay
Iterate(r, tools) ==
  /\ run[r].pc = "send"
  /\ LoopContinues(tools, run[r].iterations)
  /\ WithinIds(tools)
  /\ LET o == run[r].owner
         iterations == run[r].iterations + 1
         calls == WithIds(tools, r, iterations)
         res == applyTools(calls, 1, run[r].currentDraft, nextId)
     IN  /\ run' = [run EXCEPT ![r].iterations = iterations,
                               ![r].currentDraft = res.draft,
                               ![r].toolResponses = functionResponses(calls),
                               ![r].response = calls,
                               ![r].request = NoRequest,
                               ![r].pc = "settle"]
         /\ draftElements' = [draftElements EXCEPT ![o] = Some(res.draft)]
         /\ processingPhase' = [processingPhase EXCEPT ![o] =
              phaseOf(iterations)]
         /\ nextId' = res.uuid
         /\ unacked' = unacked \cup CallIds(calls)
  /\ UNCHANGED <<probe, syncVars, liveVars, messages>>

\* a commit that dispatches SET_STATE to the local store and posts nothing
CommitSilent(r, tools, hasText) ==
  /\ run[r].pc = "send"
  /\ ~LoopContinues(tools, run[r].iterations)
  /\ LET o == run[r].owner
     IN  /\ elements' = [elements EXCEPT ![o] = run[r].currentDraft]
         /\ messages' = [messages EXCEPT ![o] =
              IF hasText THEN Append(@, ModelMessage) ELSE @]
         /\ finally(o)
         /\ unacked' = unacked
              \cup CallIds(WithIds(tools, r, run[r].iterations + 1))
  /\ run' = [run EXCEPT ![r] =
       [NoRun EXCEPT !.owner = run[r].owner, !.pc = "done",
                     !.iterations = run[r].iterations,
                     !.outcome = "committed"]]
  /\ UNCHANGED <<probe, inbox, published, posted, selfApplied, liveVars, nextId>>

\* a commit that publishes the scene the run started from
CommitStart(r, tools, hasText) ==
  /\ run[r].pc = "send"
  /\ ~LoopContinues(tools, run[r].iterations)
  /\ LET o == run[r].owner
     IN  /\ broadcastAction(o, [type |-> "SET_STATE", payload |-> run[r].base])
         /\ messages' = [messages EXCEPT ![o] =
              IF hasText THEN Append(@, ModelMessage) ELSE @]
         /\ finally(o)
         /\ unacked' = unacked
              \cup CallIds(WithIds(tools, r, run[r].iterations + 1))
  /\ run' = [run EXCEPT ![r] =
       [NoRun EXCEPT !.owner = run[r].owner, !.pc = "done",
                     !.iterations = run[r].iterations,
                     !.outcome = "committed"]]
  /\ UNCHANGED <<probe, liveVars, nextId>>

\* chat.sendMessage resolved and the loop is over: commit the draft, surface
\* the trailing text, finally
Commit(r, tools, hasText) ==
  /\ run[r].pc = "send"
  /\ ~LoopContinues(tools, run[r].iterations)
  /\ LET o == run[r].owner
     IN  /\ broadcastAction(o, [type |-> "SET_STATE",
                                payload |-> run[r].currentDraft])
         /\ messages' = [messages EXCEPT ![o] =
              IF hasText THEN Append(@, ModelMessage) ELSE @]
         /\ finally(o)
         /\ unacked' = unacked
              \cup CallIds(WithIds(tools, r, run[r].iterations + 1))
  /\ run' = [run EXCEPT ![r] =
       [NoRun EXCEPT !.owner = run[r].owner, !.pc = "done",
                     !.iterations = run[r].iterations,
                     !.outcome = "committed"]]
  /\ UNCHANGED <<probe, liveVars, nextId>>

\* a catch block that commits what the draft holds before giving up
RejectCommits(r) ==
  /\ run[r].pc = "send"
  /\ LET o == run[r].owner
     IN  /\ broadcastAction(o, [type |-> "SET_STATE",
                                payload |-> run[r].currentDraft])
         /\ messages' = [messages EXCEPT ![o] = Append(@, ErrorMessage)]
         /\ finally(o)
  /\ run' = [run EXCEPT ![r] =
       [NoRun EXCEPT !.owner = run[r].owner, !.pc = "done",
                     !.iterations = run[r].iterations,
                     !.outcome = "failed"]]
  /\ UNCHANGED <<probe, liveVars, unacked, nextId>>

\* chat.sendMessage rejected: catch, finally
Reject(r) ==
  /\ run[r].pc = "send"
  /\ LET o == run[r].owner
     IN  /\ messages' = [messages EXCEPT ![o] = Append(@, ErrorMessage)]
         /\ finally(o)
  /\ run' = [run EXCEPT ![r] =
       [NoRun EXCEPT !.owner = run[r].owner, !.pc = "done",
                     !.iterations = run[r].iterations,
                     !.outcome = "failed"]]
  /\ UNCHANGED <<probe, syncVars, liveVars, unacked, nextId>>

\* the 800 ms settling delay elapsed; getSnapshotBlob is called on the draft
SettleElapsed(r) ==
  /\ run[r].pc = "settle"
  /\ run' = [run EXCEPT ![r].pc = "snapshot"]
  /\ UNCHANGED <<probe, syncVars, liveVars, processingPhase, draftElements, messages,
                 unacked, nextId>>

\* a critique request that goes out without the acknowledgments
sendCritiqueBare(r, image) ==
  /\ run' = [run EXCEPT
       ![r].request =
          [acks |-> <<>>,
           prompt |-> IF ~image THEN "none"
                      ELSE IF run[r].iterations >= 2 THEN "escalated"
                      ELSE "basic",
           image |-> image],
       ![r].pc = "send"]
  /\ unacked' = unacked

\* chat.sendMessage({message: parts}): the acknowledgments, and with an image
\* the verification prompt and the image
sendCritique(r, image) ==
  /\ run' = [run EXCEPT
       ![r].request =
          [acks |-> run[r].toolResponses,
           prompt |-> IF ~image THEN "none"
                      ELSE IF run[r].iterations >= 2 THEN "escalated"
                      ELSE "basic",
           image |-> image],
       ![r].pc = "send"]
  /\ unacked' = unacked \ CallIds(run[r].toolResponses)

\* getSnapshotBlob resolved with a blob and the FileReader has read it (its
\* onloadend fires in every case): the critique is sent with prompt and image
SnapshotBlob(r) ==
  /\ run[r].pc = "snapshot"
  /\ sendCritique(r, TRUE)
  /\ UNCHANGED <<probe, syncVars, liveVars, processingPhase, draftElements, messages,
                 nextId>>

\* getSnapshotBlob resolved with null (no svg, no 2d context, toBlob gave
\* null): the critique is sent without prompt and image
SnapshotNone(r) ==
  /\ run[r].pc = "snapshot"
  /\ sendCritique(r, FALSE)
  /\ UNCHANGED <<probe, syncVars, liveVars, processingPhase, draftElements, messages,
                 nextId>>

\* the image of the serialized svg fails to load: only img.onload resolves
\* the promise getSnapshotBlob returned, so the await never completes
SnapshotLost(r) ==
  /\ run[r].pc = "snapshot"
  /\ run' = [run EXCEPT ![r].pc = "stuck"]
  /\ UNCHANGED <<probe, syncVars, liveVars, processingPhase, draftElements, messages,
                 unacked, nextId>>

\* ------------------------------------------------------------- live session
\* GeminiLiveService.cleanup: the timer is cleared, the tracks of the stream
\* are stopped and the contexts closed when the fields hold them
cleanup(s) ==
  [s EXCEPT !.frameInterval = FALSE, !.stream = FALSE, !.contexts = FALSE,
            !.session = "null"]

\* the service toggleConnection creates next
NextService(v) ==
  svc[v].pc = "unused" /\ \A q \in 1..(v - 1) : svc[q].pc # "unused"

\* toggleConnection while disconnected or in error, up to the await of
\* getUserMedia inside service.connect
toggleConnect(o, v) ==
  /\ status[o] \notin {"connected", "connecting"}
  /\ NextService(v)
  /\ status' = [status EXCEPT ![o] = "connecting"]
  /\ serviceRef' = [serviceRef EXCEPT ![o] = v]
  /\ svc' = [svc EXCEPT ![v] = [NoService EXCEPT !.owner = o, !.pc = "devices",
                                                 !.contexts = TRUE]]
  /\ UNCHANGED <<probe, syncVars, appVars, nextId, liveCount>>

\* getUserMedia resolved: this.stream holds the microphone stream,
\* live.connect is called, this.session holds its promise, connect returns
\* and toggleConnection sets CONNECTED
connectResolved(v) ==
  /\ svc[v].pc = "devices"
  /\ svc' = [svc EXCEPT ![v].pc = "returned", ![v].session = "pending",
                        ![v].stream = TRUE]
  /\ status' = [status EXCEPT ![svc[v].owner] = "connected"]
  /\ messages' = [messages EXCEPT ![svc[v].owner] = <<>>]
  /\ UNCHANGED <<probe, syncVars, processingPhase, draftElements, run, unacked,
                 serviceRef, nextId, liveCount>>

\* getUserMedia rejected: the catch of toggleConnection
connectRejected(v) ==
  /\ svc[v].pc = "devices"
  /\ svc' = [svc EXCEPT ![v].pc = "failed"]
  /\ status' = [status EXCEPT ![svc[v].owner] = "error"]
  /\ serviceRef' = [serviceRef EXCEPT ![svc[v].owner] = 0]
  /\ UNCHANGED <<probe, syncVars, appVars, nextId, liveCount>>

\* callbacks.onopen: the audio source is created on inputAudioContext (a
\* TypeError when the field is null, which ends the callback) and then the
\* snapshot timer is started
sessionOpened(v) ==
  /\ svc[v].session = "pending"
  /\ svc' = [svc EXCEPT ![v].session = "open",
                        ![v].frameInterval = svc[v].contexts]
  /\ UNCHANGED <<probe, syncVars, appVars, status, serviceRef, nextId, liveCount>>

\* callbacks.onclose / callbacks.onerror: cleanup
sessionEnded(v) ==
  /\ svc[v].session \in {"pending", "open"}
  /\ svc' = [svc EXCEPT ![v] = cleanup(@)]
  /\ UNCHANGED <<probe, syncVars, appVars, status, serviceRef, nextId, liveCount>>

\* toggleConnection while connected or connecting: disconnect closes the
\* session once its promise has resolved, then cleanup
toggleDisconnect(o) ==
  /\ status[o] \in {"connected", "connecting"}
  /\ serviceRef[o] # 0 => svc[serviceRef[o]].session # "pending"
  /\ svc' = [v \in ServiceIds |->
       IF v = serviceRef[o]
         THEN [cleanup(svc[v]) EXCEPT !.disconnected = TRUE]
         ELSE svc[v]]
  /\ status' = [status EXCEPT ![o] = "disconnected"]
  /\ serviceRef' = [serviceRef EXCEPT ![o] = 0]
  /\ UNCHANGED <<probe, syncVars, appVars, nextId, liveCount>>

\* the for loop of onmessage over msg.toolCall.functionCalls from call i on:
\* handleTool maps every call against elementsRef.current, which the effect
\* refreshes only after the handler has returned
RECURSIVE handleTools(_, _, _, _)
handleTools(calls, i, elementsRef, uuid) ==
  IF i > Len(calls) THEN [uuid |-> uuid, actions |-> <<>>]
  ELSE LET action == mapToolToAction(calls[i].name, calls[i].args,
                                     elementsRef, uuid)
           rest == handleTools(calls, i + 1, elementsRef,
                               IF UsesUuid(calls[i].name) THEN uuid + 1 ELSE uuid)
       IN  [uuid |-> rest.uuid, actions |-> action \o rest.actions]

\* callbacks.onmessage for a message with tool calls: handleTool publishes
\* each mapped command and every call is answered with sendToolResponse
liveMessage(v, tools) ==
  /\ svc[v].session = "open"
  /\ liveCount < MaxLive
  /\ Len(tools) > 0
  /\ WithinIds(tools)
  /\ LET o == svc[v].owner
         calls == WithIds(tools, 0, liveCount + 1)
         res == handleTools(calls, 1, elements[o], nextId)
     IN  /\ posted + Len(res.actions) <= MaxPublish
         /\ broadcastAll(o, res.actions)
         /\ nextId' = res.uuid
         /\ svc' = [svc EXCEPT ![v].toolCall = calls]
  /\ liveCount' = liveCount + 1
  /\ UNCHANGED <<probe, appVars, status, serviceRef>>

\* ---------------------------------------------------------- specifications
RunStep(r) ==
  \/ \E tools \in ToolSeqs : Iterate(r, tools)
  \/ \E tools \in ToolSeqs, hasText \in BOOLEAN : Commit(r, tools, hasText)
  \/ Reject(r)
  \/ SettleElapsed(r)
  \/ SnapshotBlob(r)
  \/ SnapshotNone(r)
  \/ SnapshotLost(r)

\* the app in text mode in the operator's tab: instructions, the loop, the
\* toolbar and the channel; the other tabs listen (their own commands are
\* followed in SyncSpec and AppSpec)
Next ==
  \/ \E o \in Operators, r \in RunIds : Submit(o, r)
  \/ \E r \in RunIds : RunStep(r)
  \/ \E o \in Operators : clearCanvas(o)
  \/ \E s, l \in Observers : Deliver(s, l)

\* the app with a live session: the session, its tool calls and the channel
LiveNext ==
  \/ \E o \in Observers, v \in ServiceIds : toggleConnect(o, v)
  \/ \E v \in ServiceIds : connectResolved(v)
  \/ \E v \in ServiceIds : connectRejected(v)
  \/ \E v \in ServiceIds : sessionOpened(v)
  \/ \E v \in ServiceIds : sessionEnded(v)
  \/ \E o \in Observers : toggleDisconnect(o)
  \/ \E v \in ServiceIds, tools \in LiveToolSeqs : liveMessage(v, tools)
  \/ \E o \in Observers, r \in RunIds : SubmitLive(o, r)
  \/ \E o \in Observers : clearCanvas(o)
  \/ \E s, l \in Observers : Deliver(s, l)

LiveSpec == Init /\ [][LiveNext]_vars

Spec == Init /\ [][Next]_vars

\* every promise the loop awaits settles: the model service answers or
\* fails, the timer fires, the image loads or fails to, the reader ends
FairSpec ==
  /\ Spec
  /\ \A r \in RunIds : WF_vars(RunStep(r))

\* the whole app: text mode and live session together
AppNext == Next \/ LiveNext

AppSpec == Init /\ [][AppNext]_vars

\* ----------------------------------------------- the mapper on its own
\* positions of the elements of the scenes the mapper is applied to, and the
\* targets of remove_element: (10,11) is at distance 1 of the first two
\* points and at distance 20 of the fourth
MapPoints == <<(<<10, 10>>), <<10, 12>>, <<50, 50>>, <<30, 11>>>>
RemoveTargets == {<<10, 11>>, <<90, 90>>, <<50, 50>>}
DrawKinds == {"circle", "rect", "triangle"}
\* even sizes: size / 2 is then the integer size \div 2
DrawSizes == {10, 20}

\* the scenes of up to MaxScene elements at these positions, the i-th
\* element with id i
MapLayouts == UNION {[1..n -> 1..Len(MapPoints)] : n \in 0..MaxScene}
SceneOf(f) ==
  [i \in 1..Len(f) |-> Circle(i, MapPoints[f[i]][1], MapPoints[f[i]][2])]

\* the tool calls the mapper is applied to, as <<name, args>>
MapInputs ==
  {<<"remove_element", [NoArgs EXCEPT !.x = t[1], !.y = t[2]]>> :
     t \in RemoveTargets}
  \cup {<<"draw_shape", [NoArgs EXCEPT !.type = k, !.x = 50, !.y = 50,
                                      !.size = z, !.color = "red"]>> :
          k \in DrawKinds, z \in DrawSizes}

\* crypto.randomUUID() returns a value no element of the scene has as id
FreshUuid(els) == Len(els) + 1

MapInit ==
  /\ elements = [o \in Observers |-> <<>>]
  /\ inbox = [s \in Observers |-> [l \in Observers |-> <<>>]]
  /\ published = [o \in Observers |-> 0]
  /\ posted = 0
  /\ selfApplied = [o \in Observers |-> 0]
  /\ processingPhase = [o \in Observers |-> "idle"]
  /\ draftElements = [o \in Observers |-> None]
  /\ messages = [o \in Observers |-> <<>>]
  /\ status = [o \in Observers |-> "disconnected"]
  /\ serviceRef = [o \in Observers |-> 0]
  /\ svc = [v \in ServiceIds |-> NoService]
  /\ run = [r \in RunIds |-> NoRun]
  /\ unacked = {}
  /\ nextId = 1
  /\ liveCount = 0
  /\ \E f \in MapLayouts, in \in MapInputs :
       probe = [NoProbe EXCEPT !.kind = "mapper", !.scene = SceneOf(f),
                               !.input = in]

\* one call mapToolToAction(name, args, currentElements)
mapCall ==
  /\ probe.kind = "mapper" /\ probe.out = None
  /\ probe' = [probe EXCEPT !.out =
       Some(mapToolToAction(probe.input[1], probe.input[2], probe.scene,
                            FreshUuid(probe.scene)))]
  /\ UNCHANGED <<syncVars, appVars, liveVars, nextId>>

MapNext == mapCall

MapSpec == MapInit /\ [][MapNext]_vars

\* ------------------------------------------------ the store on its own
\* the elements of the scenes the reducer is applied to: two ids, and a
\* second element with the first id, as ADD_ELEMENT appends it
StoreElements == <<Circle(1, 50, 50), Circle(2, 10, 10), Circle(1, 10, 12)>>
StoreLayouts == UNION {[1..n -> 1..Len(StoreElements)] : n \in 0..MaxScene}
StoreScene(f) == [i \in 1..Len(f) |-> StoreElements[f[i]]]

\* the ids commands name (no element has the third) and the updates of
\* UPDATE_ELEMENT, a Partial<CanvasElement>: any fields of an element
StoreIds == <<1, 2, 3>>
StorePatches ==
  <<[fill |-> "blue"], [x |-> 10, y |-> 12], [id |-> 2],
    [radius |-> 5, fill |-> "red"]>>

\* the commands the reducer is applied to: every id with every patch, then
\* REMOVE_ELEMENT of every id
StoreActions ==
  [k \in 1..(Len(StoreIds) * Len(StorePatches)) |->
     [type |-> "UPDATE_ELEMENT",
      payload |-> [updates |-> StorePatches[((k - 1) % Len(StorePatches)) + 1],
                   id |-> StoreIds[((k - 1) \div Len(StorePatches)) + 1]]]]
  \o [k \in 1..Len(StoreIds) |->
        [type |-> "REMOVE_ELEMENT", payload |-> StoreIds[k]]]
  \o <<[type |-> "ADD_ELEMENT", payload |-> Circle(2, 10, 10)],
       [type |-> "SET_STATE", payload |-> <<>>],
       [type |-> "SET_STATE",
        payload |-> <<Circle(2, 10, 10), Circle(1, 50, 50)>>],
       [type |-> "CLEAR", payload |-> None],
       [type |-> "MOVE_ELEMENT", payload |-> 1],
       [type |-> UndefText, payload |-> None]>>

\* event.data of the messages the listening endpoint is given: each command
\* as broadcastAction posts it, with a field more as a later version of the
\* app might post it
StoreMessages ==
  [k \in 1..Len(StoreActions) |->
     [type |-> StoreActions[k].type, payload |-> StoreActions[k].payload,
      version |-> 2]]

StoreInit ==
  /\ elements = [o \in Observers |-> <<>>]
  /\ inbox = [s \in Observers |-> [l \in Observers |-> <<>>]]
  /\ published = [o \in Observers |-> 0]
  /\ posted = 0
  /\ selfApplied = [o \in Observers |-> 0]
  /\ processingPhase = [o \in Observers |-> "idle"]
  /\ draftElements = [o \in Observers |-> None]
  /\ messages = [o \in Observers |-> <<>>]
  /\ status = [o \in Observers |-> "disconnected"]
  /\ serviceRef = [o \in Observers |-> 0]
  /\ svc = [v \in ServiceIds |-> NoService]
  /\ run = [r \in RunIds |-> NoRun]
  /\ unacked = {}
  /\ nextId = 1
  /\ liveCount = 0
  /\ \E f \in StoreLayouts, k \in 1..Len(StoreActions) :
       \/ probe = [NoProbe EXCEPT !.kind = "reducer", !.scene = StoreScene(f),
                                  !.input = <<StoreActions[k]>>]
       \/ probe = [NoProbe EXCEPT !.kind = "onmessage",
                                  !.scene = StoreScene(f),
                                  !.input = <<StoreMessages[k]>>]

\* a call of a reducer that writes its result into the array it was given
reduceCallInPlace ==
  /\ probe.kind = "reducer" /\ probe.out = None
  /\ probe' = [probe EXCEPT
       !.out = Some(canvasReducer(probe.scene, probe.input[1])),
       !.scene = canvasReducer(probe.scene, probe.input[1])]
  /\ UNCHANGED <<syncVars, appVars, liveVars, nextId>>

\* one call canvasReducer({elements}, action)
reduceCall ==
  /\ probe.kind = "reducer" /\ probe.out = None
  /\ probe' = [probe EXCEPT !.out =
       Some(canvasReducer(probe.scene, probe.input[1]))]
  /\ UNCHANGED <<syncVars, appVars, liveVars, nextId>>

\* a second call canvasReducer({elements}, action) on the same arguments
reduceAgain ==
  /\ probe.kind = "reducer" /\ probe.out # None /\ probe.again = None
  /\ probe' = [probe EXCEPT !.again =
       Some(canvasReducer(probe.scene, probe.input[1]))]
  /\ UNCHANGED <<syncVars, appVars, liveVars, nextId>>

\* the command applied once more, to the state the first call returned
reduceResult ==
  /\ probe.kind = "reducer" /\ probe.out # None /\ probe.twice = None
  /\ probe' = [probe EXCEPT !.twice =
       Some(canvasReducer(probe.out[1], probe.input[1]))]
  /\ UNCHANGED <<syncVars, appVars, liveVars, nextId>>

\* channel.onmessage given one event, on a tab whose scene is probe.scene
receiveCall ==
  /\ probe.kind = "onmessage" /\ probe.out = None
  /\ probe' = [probe EXCEPT !.out =
       Some(onmessageDispatch(probe.scene, probe.input[1]))]
  /\ UNCHANGED <<syncVars, appVars, liveVars, nextId>>

StoreNext == reduceCall \/ reduceAgain \/ reduceResult \/ receiveCall

StoreSpec == StoreInit /\ [][StoreNext]_vars

\* ------------------------------------------------------------------ claims
Owned(o) == {r \in RunIds : run[r].owner = o /\ InFlight(r)}

RECURSIVE SumOver(_, _)
SumOver(f, S) ==
  IF S = {} THEN 0
  ELSE LET x == CHOOSE y \in S : TRUE IN f[x] + SumOver(f, S \ {x})

\* C1: a run never starts a sixth iteration, and the step a run takes when a
\* response arrives after its fifth iteration ends the run; when that step
\* commits, the committed scene becomes the draft as the fifth iteration left
\* it, the calls of the arriving response being left unapplied.
C1_IterationCap ==
  [][\A r \in RunIds :
       /\ run'[r].iterations <= MAX_ITERATIONS
       /\ (run[r].pc = "send" /\ run[r].iterations = MAX_ITERATIONS
             /\ run'[r] # run[r])
            => /\ run'[r].pc = "done"
               /\ run'[r].outcome = "committed"
                    => elements'[run[r].owner] = run[r].currentDraft]_vars

\* C1 witness: a run committed after five iterations while the response that
\* ended it still carried a tool call
C1_CapReached ==
  \E r \in RunIds :
    /\ run[r].pc = "done" /\ run[r].outcome = "committed"
    /\ run[r].iterations = MAX_ITERATIONS
    /\ \E id \in unacked : id[1] = r /\ id[2] = MAX_ITERATIONS + 1

\* C2: while a run is in flight the committed scene of its tab equals the
\* scene the run started from, whatever else happens in the tab.
C2_CommittedFrozen ==
  \A r \in RunIds : InFlight(r) => elements[run[r].owner] = run[r].base

\* C3: a tab that enters Generating eventually returns to Idle.
C3_ReturnsToIdle ==
  \A o \in Observers :
    (processingPhase[o] = "generating") ~> (processingPhase[o] = "idle")

\* C4: the step in which a model round trip fails changes no committed
\* scene and posts nothing, drops the draft, appends the failure message to
\* the transcript and puts the phase back to Idle, so that the form accepts
\* the next instruction; a failed run takes no further step.
C4_FailureAborts ==
  [][\A r \in RunIds :
       /\ (run[r].pc = "send" /\ run'[r].outcome = "failed")
            => /\ elements' = elements
               /\ inbox' = inbox
               /\ posted' = posted
               /\ draftElements'[run[r].owner] = None
               /\ processingPhase'[run[r].owner] = "idle"
               /\ messages'[run[r].owner] =
                    Append(messages[run[r].owner], ErrorMessage)
       /\ run[r].outcome = "failed" => run'[r] = run[r]]_vars

\* C4 witness: a run failed on a critique send, after tool calls were
\* applied to its draft
C4_CritiqueFailed ==
  \E r \in RunIds :
    run[r].pc = "done" /\ run[r].outcome = "failed" /\ run[r].iterations >= 1

\* C5: when a run is over, every tool call the model sent it has been
\* acknowledged, and every acknowledgment reports success.
C5_EveryCallAcked ==
  \A r \in RunIds :
    /\ \A i \in 1..Len(run[r].toolResponses) :
         run[r].toolResponses[i].result = "success"
    /\ run[r].pc = "done" => \A id \in unacked : id[1] # r

\* C6: a tab has applied each command it published exactly once, and no
\* command is in flight to the tab that published it.
C6_NoLoopback ==
  \A o \in Observers : selfApplied[o] = published[o] /\ inbox[o][o] = <<>>

\* C7: as many messages have been posted as commands were published, and a
\* step that takes a message off the channel applies it to the receiving
\* tab's scene, posts nothing, publishes nothing and puts no message in flight.
C7_ReceiptNeverPublishes ==
  /\ [](posted = SumOver(published, Observers))
  /\ [][\A s, l \in Observers :
          Len(inbox'[s][l]) < Len(inbox[s][l])
            => /\ posted' = posted
               /\ published' = published
               /\ elements'[l] = canvasReducer(elements[l], Head(inbox[s][l]))
               /\ \A a, b \in Observers :
                    Len(inbox'[a][b]) <= Len(inbox[a][b])]_vars

\* C7 witness: a published command has been received by another tab
C7_Received ==
  \E s, l \in Observers :
    s # l /\ published[s] > 0 /\ inbox[s][l] = <<>>

\* C8: after one command was published and every delivery was processed,
\* the scenes of all tabs are equal.
C8_TwoObserversEqual ==
  (posted = 1 /\ Quiescent) => \A a, b \in Observers : elements[a] = elements[b]

\* C9: whenever every posted message has been delivered, the scenes of all
\* tabs are equal.
C9_Converges ==
  Quiescent => \A a, b \in Observers : elements[a] = elements[b]

\* C10: a tab has at most one run in flight, and while it has one its phase
\* is not Idle, so the form admits no instruction.
C10_OneRunInFlight ==
  \A o \in Observers :
    /\ Cardinality(Owned(o)) <= 1
    /\ Owned(o) # {} => processingPhase[o] # "idle"

\* C10 witness: a run is in flight while the user could type another
\* instruction
C10_Busy ==
  \E r, q \in RunIds :
    InFlight(r) /\ run[q].pc = "unused" /\ MoreInstructions

\* C11: a service that was disconnected holds no resource (no live microphone
\* stream, no open audio context, no running snapshot timer), and the step
\* that disconnects changes no committed scene and promotes no draft.
C11_DisconnectReleases ==
  /\ [](\A v \in ServiceIds :
          svc[v].disconnected
            => ~svc[v].stream /\ ~svc[v].contexts /\ ~svc[v].frameInterval)
  /\ [][(\E v \in ServiceIds : svc'[v].disconnected /\ ~svc[v].disconnected)
          => elements' = elements /\ posted' = posted]_vars

\* the uuid the n-th call of a response draws, uuid being the first one free
UuidAt(calls, n, uuid) ==
  uuid + Cardinality({i \in 1..(n - 1) : UsesUuid(calls[i].name)})

\* the scene after the first n calls of a response were processed in order
\* from start: call n is mapped against the scene the calls before it left
RECURSIVE Processed(_, _, _, _)
Processed(calls, n, start, uuid) ==
  IF n = 0 THEN start
  ELSE LET before == Processed(calls, n - 1, start, uuid)
           action == mapToolToAction(calls[n].name, calls[n].args, before,
                                     UuidAt(calls, n, uuid))
       IN  IF action = None THEN before ELSE canvasReducer(before, action[1])

\* C12: a run starts its draft from the committed scene; every iteration
\* replaces the draft by the scene obtained by processing the calls of the
\* response in order, each against the draft the calls before it left (one
\* draw_shape(circle, 50, 50, 20, red) on the empty draft gives one red
\* circle at (50,50) of radius 10); no other step of the run changes the
\* draft; and the committing step makes the committed scene the draft and
\* the phase Idle.
C12_EndToEnd ==
  [][\A r \in RunIds :
       LET o == run'[r].owner IN
       /\ (run[r].pc = "unused" /\ run'[r].pc = "send")
            => run'[r].currentDraft = elements[o] /\ run'[r].base = elements[o]
       /\ (InFlight(r) /\ run'[r].iterations = run[r].iterations + 1)
            => /\ run'[r].currentDraft =
                    Processed(run'[r].response, Len(run'[r].response),
                              run[r].currentDraft, nextId)
               /\ (run[r].currentDraft = <<>> /\ Len(run'[r].response) = 1
                     /\ run'[r].response[1].name = "draw_shape"
                     /\ run'[r].response[1].args =
                          [NoArgs EXCEPT !.type = "circle", !.x = 50, !.y = 50,
                                         !.size = 20, !.color = "red"])
                    => run'[r].currentDraft = <<Circle(nextId, 50, 50)>>
       /\ (InFlight(r) /\ InFlight(r)' /\ run'[r].iterations = run[r].iterations)
            => run'[r].currentDraft = run[r].currentDraft
                 /\ run'[r].base = run[r].base
       /\ (InFlight(r) /\ run'[r].outcome = "committed")
            => /\ elements'[o] = run[r].currentDraft
               /\ processingPhase'[o] = "idle"]_vars

\* C12 witness: on an empty scene a run drew one circle in its only iteration
\* and committed
C12_CircleCommitted ==
  \E r \in RunIds :
    /\ run[r].pc = "done" /\ run[r].outcome = "committed"
    /\ run[r].iterations = 1
    /\ elements[run[r].owner] = <<Circle(1, 50, 50)>>
    /\ processingPhase[run[r].owner] = "idle"

\* C13: the step that ends a run without failure publishes ReplaceAll(draft)
\* once: the committed scene of the tab becomes the draft, one message is
\* posted and that message, SET_STATE with the draft, is put in flight to
\* every other tab; every other step of a run publishes and posts nothing
\* and changes no committed scene.
C13_OneCommit ==
  [][\A r \in RunIds :
       LET o == run[r].owner
           draft == run[r].currentDraft
       IN  /\ (InFlight(r) /\ run'[r].outcome = "committed")
                => /\ elements'[o] = draft
                   /\ posted' = posted + 1
                   /\ published' = [published EXCEPT ![o] = @ + 1]
                   /\ \A l \in Observers \ {o} :
                        inbox'[o][l] =
                          Append(inbox[o][l],
                                 [type |-> "SET_STATE", payload |-> draft])
           /\ (run'[r] # run[r] /\ run'[r].outcome # "committed")
                => /\ posted' = posted
                   /\ published' = published
                   /\ inbox' = inbox
                   /\ elements' = elements]_vars

\* C13 witness: a run committed a draft that differs from the scene it
\* started from, and the ReplaceAll is in flight to another tab
C13_CommitPosted ==
  \E r \in RunIds :
    /\ run[r].pc = "done" /\ run[r].outcome = "committed"
    /\ \E l \in Observers \ {run[r].owner} :
         /\ inbox[run[r].owner][l] # <<>>
         /\ Head(inbox[run[r].owner][l]).type = "SET_STATE"
         /\ Head(inbox[run[r].owner][l]).payload # <<>>

\* the critique of run r was sent without an image and its answer is awaited
SentWithoutImage(r) ==
  run[r].pc = "send" /\ run[r].iterations >= 1 /\ ~run[r].request.image

\* C14: when the snapshot of an iteration is none, the critique request is
\* sent with the acknowledgments of the iteration and no image, the draft
\* and the phase stay as they are and the run awaits the next response; from
\* there the run comes to its end, by a commit unless a round trip fails.
C14_SnapshotAbsorbed ==
  /\ [][\A r \in RunIds :
          (run[r].pc = "snapshot" /\ run'[r].pc = "send"
             /\ ~run'[r].request.image)
            => /\ run'[r].request.acks = run[r].toolResponses
               /\ Len(run'[r].request.acks) = Len(run[r].response)
               /\ run'[r].outcome = "none"
               /\ run'[r].currentDraft = run[r].currentDraft
               /\ processingPhase' = processingPhase
               /\ draftElements' = draftElements]_vars
  /\ \A r \in RunIds : SentWithoutImage(r) ~> (run[r].pc = "done")

\* the names of the tool schema
ToolNames == {"draw_shape", "add_text", "remove_element", "clear_board"}

\* a call that maps to no command on the scene els: its name is not a tool,
\* or it is a remove_element and no element of els is closer than THRESHOLD
MappingFails(call, els) ==
  \/ call.name \notin ToolNames
  \/ /\ call.name = "remove_element"
     /\ \A i \in 1..Len(els) :
          Dist2(els[i], call.args) >= THRESHOLD * THRESHOLD

\* the draft after the first n calls of the response an iteration processes
DraftAfter(r, calls, n) ==
  applyTools(SubSeq(calls, 1, n), 1, run[r].currentDraft, nextId).draft

Mapped(name) ==
  probe.kind = "mapper" /\ probe.input[1] = name /\ probe.out # None

\* the positions of els closer than THRESHOLD to the target of args
Near(els, args) ==
  {i \in 1..Len(els) : Dist2(els[i], args) < THRESHOLD * THRESHOLD}

\* C16: remove_element returns none exactly when no element is closer than
\* 20 to the target; otherwise it returns RemoveElement of the id of the
\* first element in list order among those at the least distance. With
\* elements at (10,10), (10,12), (50,50), target (10,11) selects the first
\* element and target (90,90) selects none.
C16_RemoveNearest ==
  Mapped("remove_element") =>
    LET els == probe.scene
        args == probe.input[2]
        res == probe.out[1]
    IN  /\ (res = None) <=> (Near(els, args) = {})
        /\ res # None =>
             /\ res[1].type = "REMOVE_ELEMENT"
             /\ \E i \in Near(els, args) :
                  /\ res[1].payload = els[i].id
                  /\ \A j \in 1..Len(els) :
                       /\ Dist2(els[i], args) <= Dist2(els[j], args)
                       /\ Dist2(els[j], args) = Dist2(els[i], args) => i <= j
        /\ els = SceneOf(<<1, 2, 3>>) =>
             /\ (args.x = 10 /\ args.y = 11) => res = Some([type |-> "REMOVE_ELEMENT", payload |-> 1])
             /\ (args.x = 90 /\ args.y = 90) => res = None

\* C16 witness: with elements at (10,12), (10,10), (50,50) the call for
\* target (10,11) returned the first of the two elements at distance 1
C16_TieFirst ==
  /\ Mapped("remove_element")
  /\ probe.scene = SceneOf(<<2, 1, 3>>)
  /\ probe.input[2].x = 10 /\ probe.input[2].y = 11
  /\ probe.out[1] = Some([type |-> "REMOVE_ELEMENT", payload |-> 1])

\* C17: draw_shape returns AddElement of an element with a fresh id, the
\* kind, position and fill of the call, and the size fields of its kind:
\* a circle has radius size/2 and neither width nor height, a rectangle has
\* width and height size and no radius, a triangle has width and height
\* size and no radius.
C17_DrawShape ==
  Mapped("draw_shape") =>
    LET args == probe.input[2]
        res == probe.out[1]
    IN  /\ res # None
        /\ res[1].type = "ADD_ELEMENT"
        /\ LET el == res[1].payload
           IN  /\ \A i \in 1..Len(probe.scene) : probe.scene[i].id # el.id
               /\ el.type = args.type
               /\ el.x = args.x /\ el.y = args.y /\ el.fill = args.color
               /\ args.type = "circle" =>
                    /\ 2 * el.radius = args.size
                    /\ el.width = Undef /\ el.height = Undef
               /\ args.type = "rect" =>
                    /\ el.width = args.size /\ el.height = args.size
                    /\ el.radius = Undef
               /\ args.type = "triangle" =>
                    /\ el.width = args.size /\ el.height = args.size
                    /\ el.radius = Undef

\* the reducer returned from a call with a command of this type
Reduced(type) ==
  probe.kind = "reducer" /\ probe.input[1].type = type /\ probe.out # None

\* the ids of a scene, in order
IdsOf(els) == [i \in 1..Len(els) |-> els[i].id]

\* C18: UpdateElement(id, patch) keeps length and order; an element with
\* that id has each field of the patch replaced by the value of the patch and
\* every other field as before; every other element is as before; when no
\* element has the id, the scene is as before.
C18_UpdateFrame ==
  Reduced("UPDATE_ELEMENT") =>
    LET els == probe.scene
        id == probe.input[1].payload.id
        patch == probe.input[1].payload.updates
        res == probe.out[1]
    IN  /\ Len(res) = Len(els)
        /\ \A i \in 1..Len(els) :
             IF els[i].id = id
               THEN /\ DOMAIN res[i] = DOMAIN els[i]
                    /\ \A f \in DOMAIN els[i] :
                         res[i][f] = IF f \in DOMAIN patch THEN patch[f]
                                     ELSE els[i][f]
               ELSE res[i] = els[i]
        /\ (\A i \in 1..Len(els) : els[i].id # id) => res = els

\* C18 witness: a patch of two fields was applied to a scene of three
\* elements of which one has the id
C18_Patched ==
  /\ Reduced("UPDATE_ELEMENT")
  /\ probe.scene = StoreScene(<<1, 2, 2>>)
  /\ probe.input[1].payload.id = 1
  /\ DOMAIN probe.input[1].payload.updates = {"x", "y"}
  /\ probe.out[1][1].x = 10 /\ probe.out[1][1].y = 12

\* C19: the ids of a scene, in order, are the same after UpdateElement as
\* before, whatever fields the patch has.
C19_IdImmutable ==
  Reduced("UPDATE_ELEMENT") => IdsOf(probe.out[1]) = IdsOf(probe.scene)

\* the first position of els holding an element with this id, 0 when none
FirstWith(els, id) ==
  IF \E i \in 1..Len(els) : els[i].id = id
    THEN CHOOSE i \in 1..Len(els) :
           els[i].id = id /\ \A j \in 1..(i - 1) : els[j].id # id
    ELSE 0

\* C20: RemoveElement(id) on a scene holding the id drops the first element
\* with the id and leaves the others in their order, one element fewer; on
\* a scene without the id it leaves the scene as it is.
C20_RemoveFirst ==
  Reduced("REMOVE_ELEMENT") =>
    LET els == probe.scene
        k == FirstWith(els, probe.input[1].payload)
        res == probe.out[1]
    IN  IF k = 0 THEN res = els
        ELSE res = SubSeq(els, 1, k - 1) \o SubSeq(els, k + 1, Len(els))

\* C21: ReplaceAll(L) returns L, the same elements in the same order, from
\* any scene, and ClearAll returns the empty scene; applied again to the
\* scene they returned, they return the same scene again.
C21_ReplaceAndClear ==
  /\ Reduced("SET_STATE") =>
       /\ probe.out[1] = probe.input[1].payload
       /\ probe.twice # None => probe.twice[1] = probe.input[1].payload
  /\ Reduced("CLEAR") =>
       /\ probe.out[1] = <<>>
       /\ probe.twice # None => probe.twice[1] = <<>>

\* C21 witness: ReplaceAll of a list of two elements was applied to a scene
\* of three other elements, and once more to the result
C21_ReplacedTwice ==
  /\ Reduced("SET_STATE")
  /\ Len(probe.scene) = 3 /\ Len(probe.input[1].payload) = 2
  /\ probe.twice # None

\* the five variants of CanvasAction
KnownTypes ==
  {"ADD_ELEMENT", "UPDATE_ELEMENT", "REMOVE_ELEMENT", "SET_STATE", "CLEAR"}

\* C22: a command whose type is none of the five variants, or a message
\* without one, leaves the scene as it is, given to the reducer or received
\* by the listening endpoint.
C22_UnknownIgnored ==
  (probe.kind \in {"reducer", "onmessage"} /\ probe.out # None
     /\ probe.input[1].type \notin KnownTypes)
    => probe.out[1] = probe.scene

\* C22 witness: the listening endpoint of a tab with a scene of elements
\* received a message of an unknown type
C22_UnknownReceived ==
  /\ probe.kind = "onmessage" /\ probe.out # None
  /\ probe.input[1].type = "MOVE_ELEMENT"
  /\ probe.scene # <<>>

C24_PhaseOrder ==
  /\ [](\A r \in RunIds :
          InFlight(r) =>
            processingPhase[run[r].owner] =
              IF run[r].iterations = 0 THEN "generating"
              ELSE IF run[r].iterations = 1 THEN "verifying"
              ELSE "fixing")
  /\ [][\A o \in Observers :
          LET p == processingPhase[o]
              q == processingPhase'[o]
          IN  /\ p = "idle" => q \in {"idle", "generating"}
              /\ p = "generating" => q \in {"generating", "verifying", "idle"}
              /\ p = "verifying" => q \in {"verifying", "fixing", "idle"}
              /\ p = "fixing" => q \in {"fixing", "idle"}
              /\ (p # q /\ q \in {"verifying", "fixing"}) =>
                   \E r \in RunIds :
                     /\ run[r].owner = o
                     /\ run'[r].iterations = run[r].iterations + 1
                     /\ Len(run'[r].response) > 0]_vars

\* C24 witness: a run is in its third iteration and the phase is Fixing
C24_Fixing ==
  \E r \in RunIds :
    /\ InFlight(r) /\ run[r].iterations = 3
    /\ processingPhase[run[r].owner] = "fixing"

\* C25: every critique request sent in iteration k of a run holds the
\* acknowledgments of the calls of that iteration and an instruction prompt,
\* the non-escalated one when k = 1 and the escalated one when k >= 2.
C25_CritiquePrompt ==
  \A r \in RunIds :
    (run[r].pc = "send" /\ run[r].iterations >= 1) =>
      /\ run[r].request.acks = functionResponses(run[r].response)
      /\ run[r].request.prompt =
           IF run[r].iterations = 1 THEN "basic" ELSE "escalated"

\* C26: the iterations of a run are sequential. The step that sends the
\* critique request of iteration k happens after the calls of iteration k
\* were applied to the published draft, and the request acknowledges every
\* one of them; the calls of iteration k + 1 are applied only by a step taken
\* while that request is awaiting its response, with no call of the run
\* unacknowledged; no other step changes the draft of the run.
C26_Sequential ==
  [][\A r \in RunIds :
       LET o == run[r].owner
           sent == run[r].pc = "snapshot" /\ run'[r].pc = "send"
           applied == run'[r].iterations # run[r].iterations
       IN  /\ sent =>
                /\ run'[r].iterations = run[r].iterations
                /\ run'[r].currentDraft = run[r].currentDraft
                /\ draftElements[o] = Some(run[r].currentDraft)
                /\ run'[r].request.acks = functionResponses(run[r].response)
                /\ CallIds(run[r].response) \subseteq unacked
                /\ CallIds(run[r].response) \cap unacked' = {}
           /\ (applied /\ InFlight(r)) =>
                /\ run[r].pc = "send"
                /\ run'[r].iterations = run[r].iterations + 1
                /\ run[r].request.acks = run[r].toolResponses
                /\ {id \in unacked : id[1] = r} = {}
           /\ (InFlight(r) /\ InFlight(r)' /\ ~applied) =>
                run'[r].currentDraft = run[r].currentDraft]_vars

\* C26 witness: the critique request of the second iteration has been sent
\* with the acknowledgment of its call
C26_SecondCritique ==
  \E r \in RunIds :
    /\ run[r].pc = "send" /\ run[r].iterations = 2
    /\ Len(run[r].request.acks) = 1
    /\ run[r].request.acks[1].id = <<r, 2, 1>>

\* C27: a tab has a draft scene exactly while one of its runs is in flight
\* and never while its phase is Idle; the step that starts a run makes the
\* draft equal to the committed scene of that moment, and the step that ends
\* a run (commit, cap exhaustion, error) removes the draft, the committed
\* scene becoming the whole draft or staying as it was.
C27_DraftLifecycle ==
  /\ [](\A o \in Observers :
          /\ draftElements[o] # None <=> (\E r \in Owned(o) : InFlight(r))
          /\ processingPhase[o] = "idle" => draftElements[o] = None)
  /\ [][\A r \in RunIds :
          /\ (~InFlight(r) /\ InFlight(r)') =>
               draftElements'[run'[r].owner] = Some(elements[run'[r].owner])
          /\ (InFlight(r) /\ ~InFlight(r)') =>
               /\ draftElements'[run[r].owner] = None
               /\ elements'[run[r].owner]
                     \in {run[r].currentDraft, elements[run[r].owner]}]_vars

\* C27 witness: a run that changed its draft has ended with an error, the
\* draft is gone and the committed scene is not the draft
C27_Dropped ==
  \E r \in RunIds :
    /\ run[r].pc = "done" /\ run[r].outcome = "failed"
    /\ run[r].iterations >= 1
    /\ draftElements[run[r].owner] = None
    /\ elements[run[r].owner] = <<>>
    /\ nextId > 1

\* C28: once a connection attempt has failed or a session has closed or
\* reported an error, the service holds no microphone stream, no audio
\* context and no snapshot timer, and teardown applied to a service that was
\* torn down leaves it as it is.
C28_TeardownCovers ==
  \A v \in ServiceIds :
    /\ (\/ svc[v].pc = "failed"
        \/ (svc[v].pc = "returned" /\ svc[v].session = "null"
              /\ ~svc[v].disconnected)) =>
         (~svc[v].stream /\ ~svc[v].contexts /\ ~svc[v].frameInterval)
    /\ cleanup(cleanup(svc[v])) = cleanup(svc[v])

\* C29: a live message with several tool calls leaves the committed scene
\* of its tab equal to the scene obtained by processing the calls one by
\* one, each mapped against the scene the calls before it left (draw_shape
\* at (x, y) followed by remove_element(x, y) leaves the scene without the
\* new element).
C29_FreshestScene ==
  [][\A v \in ServiceIds :
       svc'[v].toolCall # svc[v].toolCall =>
         elements'[svc[v].owner] =
           Processed(svc'[v].toolCall, Len(svc'[v].toolCall),
                     elements[svc[v].owner], nextId)]_vars

\* C30: whenever the status of a tab is CONNECTED the tab holds a service
\* whose session handle is set and not torn down, and the status becomes
\* CONNECTED only from CONNECTING, so never after a user disconnect without
\* a new connect request.
C30_StatusAgrees ==
  /\ [](\A o \in Observers :
          status[o] = "connected" =>
            /\ serviceRef[o] # 0
            /\ svc[serviceRef[o]].session \in {"pending", "open"})
  /\ [][\A o \in Observers :
          (status'[o] = "connected" /\ status[o] # "connected") =>
            status[o] = "connecting"]_vars

\* C31: the step that ends a run whose first response carried no tool call
\* changes the committed scene of no tab, whatever was applied to the
\* committed scene while the round trip was pending, and every message it
\* posts carries the scene the posting tab had just before the step.
C31_NoToolsNoChange ==
  [][\A r \in RunIds :
       (InFlight(r) /\ ~InFlight(r)' /\ run[r].iterations = 0) =>
         /\ elements' = elements
         /\ \A s, l \in Observers :
              \A i \in (Len(inbox[s][l]) + 1)..Len(inbox'[s][l]) :
                inbox'[s][l][i].payload = elements[s]]_vars

\* C32: no committed scene holds two elements with the same id.
C32_IdsUnique ==
  \A o \in Observers :
    \A i, j \in 1..Len(elements[o]) :
      elements[o][i].id = elements[o][j].id => i = j

====
